---- MODULE Spec2Model ----
(***************************************************************************)
(* Model of app.py: the /ingest handler (build_entity, upsert, latest      *)
(* cache) run by concurrent request threads, and fetch_records, the range  *)
(* reader behind the CSV/PDF downloads.                                    *)
(*                                                                         *)
(* Python str values are modelled as sequences of one-character strings,   *)
(* so that str(), strftime and strptime are computed character by          *)
(* character.  Dictionary keys are TLA+ strings.                           *)
(***************************************************************************)
EXTENDS Integers, Sequences, FiniteSets, TLC

(***************************************************************************)
(* Bounds of the model.                                                    *)
(***************************************************************************)
\* number of /ingest requests the model follows
MaxIngests == 2
\* number of clock advances the model follows
MaxTicks == 2

\* request threads of the (threaded) Flask server
Threads == {"t1", "t2"}

(***************************************************************************)
(* Text.                                                                   *)
(***************************************************************************)
Digits == <<"0", "1", "2", "3", "4", "5", "6", "7", "8", "9">>

IsDigit(c) == \E n \in 1..10 : Digits[n] = c

DigitVal(c) == (CHOOSE n \in 1..10 : Digits[n] = c) - 1

\* characters of the model's keys, in code-point order
Alphabet ==
    <<" ", "-", "0", "1", "2", "3", "4", "5", "6", "7", "8", "9", ":",
      "N", "a", "b", "d", "e", "n", "o", "s", "u", "v">>

Ord(c) == CHOOSE n \in 1..Len(Alphabet) : Alphabet[n] = c

\* s < t in the lexicographic order of strings
RECURSIVE StrLess(_, _)
StrLess(s, t) ==
    IF t = <<>> THEN FALSE
    ELSE IF s = <<>> THEN TRUE
    ELSE IF Head(s) = Head(t) THEN StrLess(Tail(s), Tail(t))
    ELSE Ord(Head(s)) < Ord(Head(t))

\* n written in decimal, zero-padded to w digits: strftime's %Y %m %d %H %M %S %f
RECURSIVE Pad(_, _)
Pad(n, w) == IF w = 0 THEN <<>> ELSE Pad(n \div 10, w - 1) \o <<Digits[(n % 10) + 1]>>

\* str(n) for an integer n
RECURSIVE IntStr(_)
IntStr(n) ==
    IF n < 0 THEN <<"-">> \o IntStr(0 - n)
    ELSE IF n < 10 THEN <<Digits[n + 1]>>
    ELSE IntStr(n \div 10) \o <<Digits[(n % 10) + 1]>>

\* JSON values of a request body: numbers, strings and null
Num(n) == [num |-> n]
Text(s) == [str |-> s]
Null == [null |-> TRUE]

\* Python's str(v)
Str(v) ==
    IF "num" \in DOMAIN v THEN IntStr(v.num)
    ELSE IF "str" \in DOMAIN v THEN v.str
    ELSE <<"N", "o", "n", "e">>

\* Python's None as the value of dict.get on a missing key; no str value equals
\* it, the elements of a str value being single characters
None == <<"None">>

Get(d, k) == IF k \in DOMAIN d THEN d[k] ELSE None

(***************************************************************************)
(* Time.  The clock is an instant in UTC: whole seconds since              *)
(* 2024-01-01 00:00:00 UTC and microseconds.                               *)
(***************************************************************************)
EpochYear == 2024
\* Asia/Kolkata is UTC+05:30
IstOffset == 19800

IsLeap(y) == (y % 4 = 0 /\ y % 100 # 0) \/ y % 400 = 0

DaysInMonth(y, m) ==
    IF m = 2 THEN (IF IsLeap(y) THEN 29 ELSE 28)
    ELSE IF m \in {4, 6, 9, 11} THEN 30
    ELSE 31

\* the date d days (d >= 0) after the first day of month m of year y
RECURSIVE DateFrom(_, _, _)
DateFrom(y, m, d) ==
    IF d < DaysInMonth(y, m) THEN [Y |-> y, M |-> m, D |-> d + 1]
    ELSE IF m = 12 THEN DateFrom(y + 1, 1, d - DaysInMonth(y, m))
    ELSE DateFrom(y, m + 1, d - DaysInMonth(y, m))

\* datetime.utcnow().replace(tzinfo=pytz.utc).astimezone(ist)
astimezone(t) ==
    LET local == t.sec + IstOffset
        date == DateFrom(EpochYear, 1, local \div 86400)
        rest == local % 86400
    IN  [Y |-> date.Y, M |-> date.M, D |-> date.D,
         h |-> rest \div 3600, m |-> (rest % 3600) \div 60, s |-> rest % 60,
         us |-> t.usec]

\* ist_time.strftime("%Y%m%d%H%M%S%f")
strftime_rowkey(dt) ==
    Pad(dt.Y, 4) \o Pad(dt.M, 2) \o Pad(dt.D, 2) \o Pad(dt.h, 2) \o Pad(dt.m, 2)
        \o Pad(dt.s, 2) \o Pad(dt.us, 6)

\* ist_time.strftime("%Y-%m-%d %H:%M:%S")
strftime_ts(dt) ==
    Pad(dt.Y, 4) \o <<"-">> \o Pad(dt.M, 2) \o <<"-">> \o Pad(dt.D, 2) \o <<" ">>
        \o Pad(dt.h, 2) \o <<":">> \o Pad(dt.m, 2) \o <<":">> \o Pad(dt.s, 2)

\* number of digits of s from position i on, at most max
RECURSIVE DigitRun(_, _, _)
DigitRun(s, i, max) ==
    IF max = 0 \/ i > Len(s) \/ ~IsDigit(s[i]) THEN 0
    ELSE 1 + DigitRun(s, i + 1, max - 1)

\* number of blanks of s from position i on
RECURSIVE BlankRun(_, _)
BlankRun(s, i) == IF i > Len(s) \/ s[i] # " " THEN 0 ELSE 1 + BlankRun(s, i + 1)

\* the number written by the n digits of s from position i on
RECURSIVE NumAt(_, _, _)
NumAt(s, i, n) ==
    IF n = 0 THEN 0 ELSE 10 * NumAt(s, i, n - 1) + DigitVal(s[i + n - 1])

Lit(s, i, c) == i <= Len(s) /\ s[i] = c

ParseError == [ok |-> FALSE]

\* datetime.strptime(s, "%Y-%m-%d %H:%M:%S"): %Y is four digits, the other
\* fields one or two digits, the blank of the format one or more blanks, the
\* whole string is consumed and the fields form a date and time that exist
\* (the second 60 or 61 that the pattern lets through is refused by datetime)
strptime(s) ==
    LET ny == DigitRun(s, 1, 4)
        pm == 6
        nm == DigitRun(s, pm, 2)
        p0 == pm + nm + 1
        \* %d also takes a blank and one digit from 1 to 9
        lead == Lit(s, p0, " ") /\ DigitRun(s, p0 + 1, 1) = 1 /\ s[p0 + 1] # "0"
        pd == IF lead THEN p0 + 1 ELSE p0
        nd == DigitRun(s, pd, IF lead THEN 1 ELSE 2)
        nb == BlankRun(s, pd + nd)
        ph == pd + nd + nb
        nh == DigitRun(s, ph, 2)
        pn == ph + nh + 1
        nn == DigitRun(s, pn, 2)
        ps == pn + nn + 1
        ns == DigitRun(s, ps, 2)
        shape == /\ ny = 4 /\ Lit(s, 5, "-")
                 /\ nm >= 1 /\ Lit(s, pm + nm, "-")
                 /\ nd >= 1 /\ nb >= 1
                 /\ nh >= 1 /\ Lit(s, ph + nh, ":")
                 /\ nn >= 1 /\ Lit(s, pn + nn, ":")
                 /\ ns >= 1 /\ Len(s) = ps + ns - 1
        y == NumAt(s, 1, 4)
        mo == NumAt(s, pm, nm)
        d == NumAt(s, pd, nd)
        h == NumAt(s, ph, nh)
        mi == NumAt(s, pn, nn)
        se == NumAt(s, ps, ns)
    IN  IF ~shape THEN ParseError
        ELSE IF /\ y >= 1 /\ mo \in 1..12 /\ d >= 1 /\ d <= DaysInMonth(y, mo)
                /\ h <= 23 /\ mi <= 59 /\ se <= 59
             THEN [ok |-> TRUE, dt |-> <<y, mo, d, h, mi, se>>]
             ELSE ParseError

\* a <= b for two parsed datetimes (year, month, day, hour, minute, second)
RECURSIVE TupleLeq(_, _)
TupleLeq(a, b) ==
    IF a = <<>> THEN TRUE
    ELSE IF Head(a) = Head(b) THEN TupleLeq(Tail(a), Tail(b))
    ELSE Head(a) < Head(b)

DtLeq(a, b) == TupleLeq(a, b)

(***************************************************************************)
(* build_entity.                                                           *)
(***************************************************************************)
\* the default device, also the one partition fetch_records reads
susanad == <<"s", "u", "s", "a", "n", "a", "d">>

Reserved == {"PartitionKey", "RowKey", "TimestampIST"}

\* str(data.get("deviceid", "susanad"))
DeviceId(data) == IF "deviceid" \in DOMAIN data THEN Str(data["deviceid"]) ELSE susanad

\* the three fields build_entity derives from the reading and the clock
Derived(data, ist_time) ==
    [PartitionKey |-> DeviceId(data),
     RowKey |-> strftime_rowkey(ist_time),
     TimestampIST |-> strftime_ts(ist_time)]

\* the loop over data.items(): every field but deviceid is assigned into the
\* entity as str(v), after the three derived fields were put there
build_entity(data, ist_time) ==
    LET payload == DOMAIN data \ {"deviceid"}
    IN  [k \in Reserved \cup payload |->
            IF k \in payload THEN Str(data[k]) ELSE Derived(data, ist_time)[k]]

(***************************************************************************)
(* The table: the entities in the order a query yields them, by            *)
(* PartitionKey and RowKey.                                                *)
(***************************************************************************)
SameKey(e, f) == e.PartitionKey = f.PartitionKey /\ e.RowKey = f.RowKey

KeyLess(e, f) ==
    \/ StrLess(e.PartitionKey, f.PartitionKey)
    \/ e.PartitionKey = f.PartitionKey /\ StrLess(e.RowKey, f.RowKey)

\* table_client.upsert_entity(entity, mode="replace"): the entity replaces the
\* one stored under its key, or is added
upsert_entity(tbl, e) ==
    IF \E i \in 1..Len(tbl) : SameKey(tbl[i], e)
    THEN [i \in 1..Len(tbl) |-> IF SameKey(tbl[i], e) THEN e ELSE tbl[i]]
    ELSE LET n == Cardinality({i \in 1..Len(tbl) : KeyLess(tbl[i], e)})
         IN  SubSeq(tbl, 1, n) \o <<e>> \o SubSeq(tbl, n + 1, Len(tbl))

\* table_client.query_entities("PartitionKey eq 'susanad'")
InPartition(e) == e.PartitionKey = susanad

query_entities(tbl) == SelectSeq(tbl, InPartition)

(***************************************************************************)
(* fetch_records.                                                          *)
(***************************************************************************)
Raised == [raised |-> TRUE, records |-> <<>>]

\* the row appended for an entity inside the window
Row(e, prefix) ==
    [Timestamp |-> e.TimestampIST,
     MassFlow |-> Get(e, prefix \o "MassFlow"),
     Masstotal |-> Get(e, prefix \o "Masstotal"),
     VolumeFlow |-> Get(e, prefix \o "VolumeFlow"),
     Volumetotal |-> Get(e, prefix \o "Volumetotal"),
     Density |-> Get(e, prefix \o "Density"),
     Temp |-> Get(e, prefix \o "Temp")]

\* InWindow as it would be with the end of the window left out
InWindowOpenEnd(start_dt, ts_dt, end_dt) ==
    DtLeq(start_dt, ts_dt) /\ DtLeq(ts_dt, end_dt) /\ ts_dt # end_dt

\* InWindow as it would be if the two bounds were put in order first
InWindowEitherOrder(start_dt, ts_dt, end_dt) ==
    \/ DtLeq(start_dt, ts_dt) /\ DtLeq(ts_dt, end_dt)
    \/ DtLeq(end_dt, ts_dt) /\ DtLeq(ts_dt, start_dt)

\* the window test of the loop: start_dt <= ts_dt <= end_dt
InWindow(start_dt, ts_dt, end_dt) == DtLeq(start_dt, ts_dt) /\ DtLeq(ts_dt, end_dt)

\* Visit as it would be if a timestamp that does not parse were skipped
VisitSkipsBad(e, prefix, start_dt, end_dt) ==
    LET ts == Get(e, "TimestampIST")
    IN  IF ts = None \/ ts = <<>> THEN [op |-> "continue"]
        ELSE LET ts_dt == strptime(ts)
             IN  IF ~ts_dt.ok THEN [op |-> "continue"]
                 ELSE IF DtLeq(start_dt, ts_dt.dt) /\ DtLeq(ts_dt.dt, end_dt)
                 THEN [op |-> "append", row |-> Row(e, prefix)]
                 ELSE [op |-> "continue"]

\* one pass of the loop body over entity e: continue, raise (strptime's
\* ValueError leaves the function) or append a row
Visit(e, prefix, start_dt, end_dt) ==
    LET ts == Get(e, "TimestampIST")
    IN  IF ts = None \/ ts = <<>> THEN [op |-> "continue"]
        ELSE LET ts_dt == strptime(ts)
             IN  IF ~ts_dt.ok THEN [op |-> "raise"]
                 ELSE IF InWindow(start_dt, ts_dt.dt, end_dt)
                 THEN [op |-> "append", row |-> Row(e, prefix)]
                 ELSE [op |-> "continue"]

\* the loop of fetch_records from entity i on, records being the rows so far
RECURSIVE FetchLoop(_, _, _, _, _, _)
FetchLoop(entities, i, prefix, start_dt, end_dt, records) ==
    IF i > Len(entities) THEN [raised |-> FALSE, records |-> records]
    ELSE LET v == Visit(entities[i], prefix, start_dt, end_dt)
         IN  IF v.op = "raise" THEN Raised
             ELSE FetchLoop(entities, i + 1, prefix, start_dt, end_dt,
                            IF v.op = "append" THEN Append(records, v.row) ELSE records)

fetch_records(tbl, prefix, start, end) ==
    LET entities == query_entities(tbl)
        start_dt == strptime(start)
        end_dt == strptime(end)
    IN  IF ~start_dt.ok \/ ~end_dt.ok THEN Raised
        ELSE FetchLoop(entities, 1, prefix, start_dt.dt, end_dt.dt, <<>>)

(***************************************************************************)
(* Inputs.                                                                 *)
(***************************************************************************)
dev1 == <<"d", "e", "v", "1">>

\* JSON objects posted to /ingest
Readings ==
    { [deviceid |-> Text(dev1), MassFlow |-> Num(10)],
      [MassFlow |-> Num(10), A_MassFlow |-> Num(12)],
      [deviceid |-> Text(<<>>), MassFlow |-> Num(10)],
      [deviceid |-> Text(dev1), PartitionKey |-> Text(susanad), Temp |-> Null] }

\* JSON objects posted to /ingest before a report is fetched; two of them carry
\* a field named TimestampIST
ReportReadings ==
    { [deviceid |-> Text(dev1), MassFlow |-> Num(10)],
      [MassFlow |-> Num(10), A_MassFlow |-> Num(12)],
      [TimestampIST |-> Text(<<"b", "a", "d">>)],
      [TimestampIST |-> Text(<<>>), MassFlow |-> Num(10)] }

Object(data) == [is_json |-> TRUE, kind |-> "object", data |-> data]

\* requests: JSON objects, a JSON body that is no object, a body that is no
\* JSON, and a request without the JSON content type
Requests ==
    {Object(data) : data \in Readings}
        \cup { [is_json |-> TRUE, kind |-> "array"],
               [is_json |-> TRUE, kind |-> "invalid"],
               [is_json |-> FALSE, kind |-> "object"] }

\* the local time 2024-01-01 09:59:59 as a clock instant, where the clock starts
StartSec == 16199

T0959 == strftime_ts(astimezone([sec |-> StartSec, usec |-> 0]))
T1000 == strftime_ts(astimezone([sec |-> StartSec + 1, usec |-> 0]))
T1001 == strftime_ts(astimezone([sec |-> StartSec + 2, usec |-> 0]))

BadTime == <<"2", "0", "2", "4">>

\* arguments of fetch_records: every window over three seconds, start > end
\* included, one window with a prefix and one whose start does not parse
FetchArgs ==
    {<<"", start, end>> : start \in {T0959, T1000, T1001}, end \in {T0959, T1000, T1001}}
        \cup {<<"A_", T0959, T1001>>, <<"", BadTime, T1001>>}

\* a record an earlier deployment left in the table, without TimestampIST
Legacy ==
    [PartitionKey |-> susanad,
     RowKey |-> <<"2", "0", "2", "3", "1", "2", "3", "1", "2", "3", "5", "9">>,
     MassFlow |-> <<"7">>]

(***************************************************************************)
(* State.                                                                  *)
(***************************************************************************)
VARIABLES
    now,            \* the clock: [sec, usec] in UTC
    ticks,          \* clock advances so far
    table,          \* the table's entities, in query order
    latest_cache,   \* PartitionKey -> entity
    pc,             \* where each thread is in ingest
    frame,          \* each thread's request, ist_time and entity
    resp,           \* each thread's last response
    ingests,        \* /ingest requests received so far
    written,        \* history: the frames whose upsert succeeded, in order
    report          \* the fetch_records call that just returned, and its outcome

vars == <<now, ticks, table, latest_cache, pc, frame, resp, ingests, written, report>>

NoFrame == [kind |-> "none"]
NoResp == [status |-> 0]
NoReport == [called |-> FALSE]

\* the process has started: the table may hold what earlier runs stored, the
\* cache is empty
Started ==
    /\ now = [sec |-> StartSec, usec |-> 999999]
    /\ ticks = 0
    /\ latest_cache = <<>>
    /\ pc = [t \in Threads |-> "idle"]
    /\ frame = [t \in Threads |-> NoFrame]
    /\ resp = [t \in Threads |-> NoResp]
    /\ ingests = 0
    /\ written = <<>>
    /\ report = NoReport

Init == Started /\ table = <<>>

InitReport == Started /\ table \in {<<>>, <<Legacy>>}

\* the outcome of a fetch_records call is gone with the next step
ReportReturned == report' = NoReport

(***************************************************************************)
(* The clock.                                                              *)
(***************************************************************************)
TickMicro ==
    /\ ticks < MaxTicks
    /\ ticks' = ticks + 1
    /\ now' = IF now.usec = 999999 THEN [sec |-> now.sec + 1, usec |-> 0]
              ELSE [sec |-> now.sec, usec |-> now.usec + 1]
    /\ UNCHANGED <<table, latest_cache, pc, frame, resp, ingests, written>>
    /\ ReportReturned

TickSecond ==
    /\ ticks < MaxTicks
    /\ ticks' = ticks + 1
    /\ now' = [sec |-> now.sec + 1, usec |-> now.usec]
    /\ UNCHANGED <<table, latest_cache, pc, frame, resp, ingests, written>>
    /\ ReportReturned

(***************************************************************************)
(* ingest, one thread per request.                                         *)
(***************************************************************************)
Reply(t, status, req) ==
    resp' = [resp EXCEPT ![t] =
                [status |-> status, is_json |-> req.is_json, kind |-> req.kind]]

\* cache[entity["PartitionKey"]] = entity
CachePut(cache, e) ==
    [d \in DOMAIN cache \cup {e.PartitionKey} |->
        IF d = e.PartitionKey THEN e ELSE cache[d]]

\* a request is received: the content type check, get_json and build_entity
IngestBegin(t, req) ==
    /\ pc[t] = "idle"
    /\ ingests < MaxIngests
    /\ ingests' = ingests + 1
    /\ IF ~req.is_json \/ req.kind = "invalid"
       THEN \* "JSON required", or get_json refuses the body
            /\ Reply(t, 400, req)
            /\ UNCHANGED <<pc, frame>>
       ELSE IF req.kind # "object"
       THEN \* data.get raises inside the try block
            /\ Reply(t, 500, req)
            /\ UNCHANGED <<pc, frame>>
       ELSE LET ist_time == astimezone(now)
            IN  /\ frame' = [frame EXCEPT ![t] =
                        [kind |-> "ingest", req |-> req, ist_time |-> ist_time,
                         entity |-> build_entity(req.data, ist_time)]]
                /\ pc' = [pc EXCEPT ![t] = "upsert"]
                /\ resp' = [resp EXCEPT ![t] = NoResp]
    /\ UNCHANGED <<now, ticks, table, latest_cache, written>>
    /\ ReportReturned

\* upsert_entity returns
IngestUpsert(t) ==
    /\ pc[t] = "upsert"
    /\ table' = upsert_entity(table, frame[t].entity)
    /\ written' = Append(written, frame[t])
    /\ pc' = [pc EXCEPT ![t] = "cache"]
    /\ UNCHANGED <<now, ticks, latest_cache, frame, resp, ingests>>
    /\ ReportReturned

\* IngestUpsertFails as it would be with the cache assigned before the upsert
IngestUpsertFailsCacheFirst(t) ==
    /\ pc[t] = "upsert"
    /\ latest_cache' = CachePut(latest_cache, frame[t].entity)
    /\ Reply(t, 500, frame[t].req)
    /\ pc' = [pc EXCEPT ![t] = "idle"]
    /\ frame' = [frame EXCEPT ![t] = NoFrame]
    /\ UNCHANGED <<now, ticks, table, ingests, written>>
    /\ ReportReturned

\* upsert_entity raises: the except branch answers 500
IngestUpsertFails(t) ==
    /\ pc[t] = "upsert"
    /\ Reply(t, 500, frame[t].req)
    /\ pc' = [pc EXCEPT ![t] = "idle"]
    /\ frame' = [frame EXCEPT ![t] = NoFrame]
    /\ UNCHANGED <<now, ticks, table, latest_cache, ingests, written>>
    /\ ReportReturned

\* latest_cache[entity["PartitionKey"]] = entity, and the answer {"status": "ok"}
IngestCache(t) ==
    /\ pc[t] = "cache"
    /\ latest_cache' = CachePut(latest_cache, frame[t].entity)
    /\ Reply(t, 200, frame[t].req)
    /\ pc' = [pc EXCEPT ![t] = "idle"]
    /\ frame' = [frame EXCEPT ![t] = NoFrame]
    /\ UNCHANGED <<now, ticks, table, ingests, written>>
    /\ ReportReturned

\* the whole handler in one step, as a server that takes one request at a time
\* runs it
Ingest(t, req) ==
    /\ pc[t] = "idle"
    /\ ingests < MaxIngests
    /\ ingests' = ingests + 1
    /\ IF ~req.is_json \/ req.kind = "invalid"
       THEN /\ Reply(t, 400, req)
            /\ UNCHANGED <<table, latest_cache, written>>
       ELSE IF req.kind # "object"
       THEN /\ Reply(t, 500, req)
            /\ UNCHANGED <<table, latest_cache, written>>
       ELSE LET ist_time == astimezone(now)
                entity == build_entity(req.data, ist_time)
            IN  \/ /\ table' = upsert_entity(table, entity)
                   /\ written' = Append(written,
                            [kind |-> "ingest", req |-> req, ist_time |-> ist_time,
                             entity |-> entity])
                   /\ latest_cache' = CachePut(latest_cache, entity)
                   /\ Reply(t, 200, req)
                \/ \* upsert_entity raises
                   /\ Reply(t, 500, req)
                   /\ UNCHANGED <<table, latest_cache, written>>
    /\ UNCHANGED <<now, ticks, pc, frame>>
    /\ ReportReturned

\* list(latest_cache.values()), the body of /api/latest
latest == {latest_cache[d] : d \in DOMAIN latest_cache}

(***************************************************************************)
(* A report is fetched.                                                    *)
(***************************************************************************)
\* one download is served at a time: fetch_records is called
Fetch(prefix, start, end) ==
    /\ ~report.called
    /\ report' = [called |-> TRUE, prefix |-> prefix, start |-> start, end |-> end,
                  entities |-> query_entities(table),
                  result |-> fetch_records(table, prefix, start, end)]
    /\ UNCHANGED <<now, ticks, table, latest_cache, pc, frame, resp, ingests, written>>

\* the download handler has rendered the rows and answers
FetchDone ==
    /\ report.called
    /\ report' = NoReport
    /\ UNCHANGED <<now, ticks, table, latest_cache, pc, frame, resp, ingests, written>>

\* the server under concurrent /ingest requests
Next ==
    \/ TickMicro
    \/ TickSecond
    \/ \E t \in Threads, req \in Requests : IngestBegin(t, req)
    \/ \E t \in Threads : IngestUpsert(t)
    \/ \E t \in Threads : IngestUpsertFails(t)
    \/ \E t \in Threads : IngestCache(t)

Spec == Init /\ [][Next]_vars

\* readings are ingested one after the other and reports are fetched
NextReport ==
    \/ TickSecond
    \/ \E data \in ReportReadings : Ingest("t1", Object(data))
    \/ \E a \in FetchArgs : Fetch(a[1], a[2], a[3])
    \/ FetchDone

SpecReport == InitReport /\ [][NextReport]_vars

(***************************************************************************)
(* Properties of build_entity and ingest, checked under Spec.              *)
(***************************************************************************)
\* the frames of the ingests that built an entity and have not answered yet
Building == {frame[t] : t \in {u \in Threads : pc[u] # "idle"}}

\* the entities of the ingests whose upsert succeeded
WrittenEntities == {written[i].entity : i \in 1..Len(written)}

\* C2: the entity build_entity returns keeps the derived values of PartitionKey,
\* RowKey and TimestampIST, whatever fields the reading has.
C2_ReservedFieldsWin ==
    \A f \in Building :
        \A k \in Reserved : f.entity[k] = Derived(f.req.data, f.ist_time)[k]

\* C3: the PartitionKey build_entity returns is the reading's deviceid when that
\* is present and not empty, and "susanad" otherwise.  Readings with a field
\* named like a derived field are left to C2.
C3_PartitionKeyOrDefault ==
    \A f \in Building :
        LET data == f.req.data
        IN  DOMAIN data \cap Reserved = {} =>
                f.entity.PartitionKey =
                    IF "deviceid" \in DOMAIN data /\ Str(data["deviceid"]) # <<>>
                    THEN Str(data["deviceid"])
                    ELSE susanad

\* every entry of latest_cache is an entity whose upsert succeeded, filed under
\* its PartitionKey
C4_CachedIsWritten ==
    \A d \in DOMAIN latest_cache :
        latest_cache[d] \in WrittenEntities /\ latest_cache[d].PartitionKey = d

\* the cache changes only by a thread past its successful upsert, which files
\* its own entity and leaves the other entries alone; an ingest whose upsert
\* fails leaves the cache and the table as they were and answers 500
C4_CacheStep ==
    /\ latest_cache' # latest_cache =>
            \E t \in Threads :
                /\ pc[t] = "cache"
                /\ frame[t] \in {written[i] : i \in 1..Len(written)}
                /\ frame[t].entity.PartitionKey \in DOMAIN latest_cache'
                /\ latest_cache'[frame[t].entity.PartitionKey] = frame[t].entity
                /\ \A d \in DOMAIN latest_cache :
                        d # frame[t].entity.PartitionKey =>
                            d \in DOMAIN latest_cache' /\ latest_cache'[d] = latest_cache[d]
    /\ \A t \in Threads :
            pc[t] = "upsert" /\ pc'[t] = "idle" =>
                /\ latest_cache' = latest_cache
                /\ table' = table
                /\ resp'[t].status = 500

\* C4: write-then-cache, never cache-before-write: C4_CachedIsWritten holds in
\* every state and every step is a C4_CacheStep
C4_WriteThenCache == []C4_CachedIsWritten /\ [][C4_CacheStep]_vars

\* C4 witness: an ingest of a JSON object was answered 500, its upsert having
\* failed, while the cache holds the entity of another ingest
C4_Witness ==
    /\ \E t \in Threads : resp[t].status = 500 /\ resp[t].kind = "object"
    /\ DOMAIN latest_cache # {}
    /\ Len(written) = 1

\* the entities the table holds in partition d
PartitionOf(d) == {i \in 1..Len(table) : table[i].PartitionKey = d}

\* the successful ingests for device d
WrittenFor(d) == {i \in 1..Len(written) : written[i].entity.PartitionKey = d}

\* C5: two successful ingests for the same device never have the same RowKey,
\* and so a partition holds as many entities as ingests succeeded for it.
C5_RowKeyUnique ==
    /\ \A i, j \in 1..Len(written) :
            i # j /\ written[i].entity.PartitionKey = written[j].entity.PartitionKey
                => written[i].entity.RowKey # written[j].entity.RowKey
    /\ \A i \in 1..Len(written) :
            LET d == written[i].entity.PartitionKey
            IN  Cardinality(PartitionOf(d)) = Cardinality(WrittenFor(d))

\* C7: a JSON body that is no object is answered 400 (the table and the cache
\* are not touched by IngestBegin in any case).
C7_NonMappingIs400 ==
    \A t \in Threads :
        resp[t].status # 0 /\ resp[t].is_json /\ resp[t].kind = "array"
            => resp[t].status = 400

\* C10: when no ingest is in flight, latest_cache holds for every device with a
\* successful ingest the entity whose upsert was performed last.
C10_CacheIsLastWritten ==
    (\A t \in Threads : pc[t] = "idle") =>
        \A i \in 1..Len(written) :
            LET d == written[i].entity.PartitionKey
                last == CHOOSE j \in WrittenFor(d) : \A k \in WrittenFor(d) : k <= j
            IN  d \in DOMAIN latest_cache /\ latest_cache[d] = written[last].entity

(***************************************************************************)
(* Properties of fetch_records, checked under SpecReport.  The properties  *)
(* place a timestamp by its year and its second within the year.           *)
(***************************************************************************)
RECURSIVE DaysBefore(_, _)
DaysBefore(y, m) == IF m = 1 THEN 0 ELSE DaysBefore(y, m - 1) + DaysInMonth(y, m - 1)

SecondOfYear(dt) ==
    (DaysBefore(dt[1], dt[2]) + dt[3] - 1) * 86400 + dt[4] * 3600 + dt[5] * 60 + dt[6]

\* the well-formed timestamp a is not later than the well-formed timestamp b
NotLater(a, b) ==
    LET x == strptime(a).dt
        y == strptime(b).dt
    IN  x[1] < y[1] \/ (x[1] = y[1] /\ SecondOfYear(x) <= SecondOfYear(y))

HasTimestamp(e) == "TimestampIST" \in DOMAIN e /\ e.TimestampIST # <<>>

WellFormed(e) == HasTimestamp(e) /\ strptime(e.TimestampIST).ok

Malformed(e) == HasTimestamp(e) /\ ~strptime(e.TimestampIST).ok

\* the scanned entity e lies in the window of the report
Matches(e) ==
    WellFormed(e) /\ NotLater(report.start, e.TimestampIST)
        /\ NotLater(e.TimestampIST, report.end)

ArgsParse == strptime(report.start).ok /\ strptime(report.end).ok

Scanned == {report.entities[i] : i \in 1..Len(report.entities)}

\* C1: the table and the cache being empty at the start, after the one
\* successful ingest of {deviceid: "dev1", MassFlow: 10} at local time t the
\* cache holds one entry, for dev1, with MassFlow "10", and a fetch_records call
\* with start <= t <= end returns one row, whose Timestamp is t.
C1_EndToEnd ==
    ( /\ report.called /\ ArgsParse
      /\ Len(written) = 1
      /\ written[1].req.data = [deviceid |-> Text(dev1), MassFlow |-> Num(10)]
      /\ table = <<written[1].entity>>
      /\ pc["t1"] = "idle"
      /\ NotLater(report.start, strftime_ts(written[1].ist_time))
      /\ NotLater(strftime_ts(written[1].ist_time), report.end) )
    => /\ Cardinality(latest) = 1
       /\ \A e \in latest : e.PartitionKey = dev1 /\ e.MassFlow = <<"1", "0">>
       /\ ~report.result.raised
       /\ Len(report.result.records) = 1
       /\ report.result.records[1].Timestamp = strftime_ts(written[1].ist_time)

\* C6: a scanned entity with a well-formed timestamp ts is among the rows of a
\* report if and only if start <= ts <= end, both ends included: the rows with
\* Timestamp ts are as many as the scanned entities with that timestamp when ts
\* is in the window, and none when it is not.
C6_InclusiveWindow ==
    report.called /\ ~report.result.raised =>
        \A e \in Scanned :
            WellFormed(e) =>
                Cardinality({i \in 1..Len(report.result.records) :
                                report.result.records[i].Timestamp = e.TimestampIST})
                    = IF Matches(e)
                      THEN Cardinality({i \in 1..Len(report.entities) :
                                /\ HasTimestamp(report.entities[i])
                                /\ report.entities[i].TimestampIST = e.TimestampIST})
                      ELSE 0

\* C6 witness: the window is [10:00:00, 10:00:00]; the entity stamped 10:00:00
\* is the one row, the entity stamped 09:59:59 was scanned and left out
C6_Witness ==
    /\ report.called /\ ~report.result.raised
    /\ report.start = T1000 /\ report.end = T1000
    /\ \E e, f \in Scanned :
            /\ HasTimestamp(e) /\ e.TimestampIST = T1000
            /\ HasTimestamp(f) /\ f.TimestampIST = T0959
    /\ Len(report.result.records) = 1
    /\ report.result.records[1].Timestamp = T1000

\* C8: with start later than end, and no scanned timestamp malformed,
\* fetch_records does not fail and returns no row.
C8_ReversedWindowIsEmpty ==
    ( /\ report.called /\ ArgsParse
      /\ ~NotLater(report.start, report.end)
      /\ \A e \in Scanned : ~Malformed(e) )
    => ~report.result.raised /\ report.result.records = <<>>

\* C8 witness: the window is [10:00:01, 09:59:59], an entity stamped 10:00:00
\* was scanned and the result is empty
C8_Witness ==
    /\ report.called /\ ~report.result.raised
    /\ report.start = T1001 /\ report.end = T0959
    /\ \E e \in Scanned : HasTimestamp(e) /\ e.TimestampIST = T1000
    /\ report.result.records = <<>>

\* C9: no partial report.  Entities without a timestamp, or with an empty one,
\* are passed over; if a scanned entity has a malformed timestamp the call
\* fails and returns no row; otherwise it returns the rows of the matching
\* entities in scan order.
C9_NoPartialReport ==
    report.called =>
        /\ report.result.raised => report.result.records = <<>>
        /\ (\E e \in Scanned : Malformed(e)) => report.result.raised
        /\ ArgsParse /\ (\A e \in Scanned : ~Malformed(e)) =>
                LET matching == SelectSeq(report.entities, Matches)
                IN  /\ ~report.result.raised
                    /\ Len(report.result.records) = Len(matching)
                    /\ \A i \in 1..Len(matching) :
                           report.result.records[i] = Row(matching[i], report.prefix)

\* C9 witness: the scan met an entity without TimestampIST, then one inside
\* the window, then one whose timestamp is malformed, and the call failed
C9_Witness ==
    /\ report.called /\ ArgsParse /\ report.result.raised
    /\ Len(report.entities) = 3
    /\ ~HasTimestamp(report.entities[1])
    /\ Matches(report.entities[2])
    /\ Malformed(report.entities[3])

====
